---- MODULE Spec2Model ----
(***************************************************************************)
(* A model of snapenv (src/src/index.ts): schema-directed validation and   *)
(* coercion of a flat string-keyed environment mapping.                    *)
(*                                                                         *)
(* Strings.  A JavaScript string is a sequence of pieces whose             *)
(* concatenation is the string.  Every string the code inspects (type      *)
(* descriptors, field names, prefixes, raw values, enum members) is a      *)
(* sequence of one-character pieces; the fixed text of a message template  *)
(* is one piece.  JavaScript values are tagged records: Undefined, Str,    *)
(* Num, Bool, Arr, Null, Obj.                                              *)
(***************************************************************************)
EXTENDS Integers, Sequences, FiniteSets, TLC

VARIABLES
    schema,     \* the schema of the call: a sequence of [key, type] entries
    options,    \* the options object of the call
    pc,         \* "ready" before the call, "done" after it
    op,         \* the entry point that ran: "none", "snap", "validate"
    ret,        \* what the call produced (see snap and validate)
    heap        \* objects the caller holds: [fields, frozen, by]

vars == <<schema, options, pc, op, ret, heap>>

---------------------------------------------------------------------------
(* JavaScript values *)

Undefined == [t |-> "undefined"]
Str(s) == [t |-> "string", s |-> s]
Num(n) == [t |-> "number", n |-> n]
Bool(b) == [t |-> "boolean", b |-> b]
Arr(items) == [t |-> "array", items |-> items]
Null == [t |-> "null"]
Obj(fields) == [t |-> "object", fields |-> fields]

\* x ?? d
Coalesce(x, d) == IF x = Undefined THEN d ELSE x

\* the truthiness of a value that is undefined or a string
Truthy(x) == x.t = "string" /\ x.s /= <<>>

---------------------------------------------------------------------------
(* String primitives *)

\* s.includes(c), for a one-character c
Includes(s, c) == \E i \in 1..Len(s) : s[i] = c

\* s.indexOf(c), one-based; 0 when c does not occur
IndexOf(s, c) ==
    IF Includes(s, c) THEN CHOOSE i \in 1..Len(s) : s[i] = c /\ \A j \in 1..(i - 1) : s[j] /= c
    ELSE 0

\* s.endsWith(c), for a one-character c
EndsWith(s, c) == Len(s) > 0 /\ s[Len(s)] = c

\* s.slice(0, -1)
DropLast(s) == SubSeq(s, 1, Len(s) - 1)

\* whether sub occurs in s
Contains(s, sub) == \E i \in 0..(Len(s) - Len(sub)) : SubSeq(s, i + 1, i + Len(sub)) = sub

UpperLetters == <<"A","B","C","D","E","F","G","H","I","J","K","L","M",
                  "N","O","P","Q","R","S","T","U","V","W","X","Y","Z">>
LowerLetters == <<"a","b","c","d","e","f","g","h","i","j","k","l","m",
                  "n","o","p","q","r","s","t","u","v","w","x","y","z">>

IsUpper(c) == \E i \in 1..Len(UpperLetters) : UpperLetters[i] = c
IsLower(c) == \E i \in 1..Len(LowerLetters) : LowerLetters[i] = c
IsDigit(c) == c \in {"0","1","2","3","4","5","6","7","8","9"}
IsSpace(c) == c \in {" ", "\t", "\n"}

LowerChar(c) ==
    IF IsUpper(c) THEN LowerLetters[CHOOSE i \in 1..Len(UpperLetters) : UpperLetters[i] = c]
    ELSE c

\* s.toLowerCase()
ToLowerCase(s) == [i \in 1..Len(s) |-> LowerChar(s[i])]

RECURSIVE TrimStart(_)
TrimStart(s) == IF s /= <<>> /\ IsSpace(Head(s)) THEN TrimStart(Tail(s)) ELSE s

RECURSIVE TrimEnd(_)
TrimEnd(s) == IF s /= <<>> /\ IsSpace(s[Len(s)]) THEN TrimEnd(DropLast(s)) ELSE s

\* s.trim()
Trim(s) == TrimEnd(TrimStart(s))

\* s.split(c), for a one-character c: always at least one piece
RECURSIVE Split(_, _)
Split(s, c) ==
    IF ~Includes(s, c) THEN <<s>>
    ELSE <<SubSeq(s, 1, IndexOf(s, c) - 1)>> \o Split(SubSeq(s, IndexOf(s, c) + 1, Len(s)), c)

\* list.join(sep), the items and sep being strings
RECURSIVE Join(_, _)
Join(list, sep) ==
    IF list = <<>> THEN <<>>
    ELSE IF Len(list) = 1 THEN list[1]
    ELSE list[1] \o sep \o Join(Tail(list), sep)

---------------------------------------------------------------------------
(* Numbers.  A JavaScript number is NaN, an infinity, or the finite        *)
(* decimal num / den with den a power of ten and no common factor ten.     *)

NaN == [k |-> "nan"]
Infinite(neg) == [k |-> "inf", neg |-> neg]

RECURSIVE Finite(_, _)
Finite(num, den) ==
    IF den > 1 /\ num % 10 = 0 THEN Finite(num \div 10, den \div 10)
    ELSE [k |-> "fin", num |-> num, den |-> den]

isNaN(n) == n.k = "nan"
isInteger(n) == n.k = "fin" /\ n.den = 1

\* n < m, for a number n and an integer literal m
LessThan(n, m) ==
    CASE n.k = "nan" -> FALSE
      [] n.k = "inf" -> n.neg
      [] OTHER -> n.num < m * n.den

\* n > m, for a number n and an integer literal m
GreaterThan(n, m) ==
    CASE n.k = "nan" -> FALSE
      [] n.k = "inf" -> ~n.neg
      [] OTHER -> n.num > m * n.den

DigitChars == <<"0","1","2","3","4","5","6","7","8","9">>
HexChars == <<"0","1","2","3","4","5","6","7","8","9","a","b","c","d","e","f">>

IsHexDigit(c) == \E i \in 1..Len(HexChars) : HexChars[i] = LowerChar(c)
HexDigitValue(c) == (CHOOSE i \in 1..Len(HexChars) : HexChars[i] = LowerChar(c)) - 1
DigitValue(c) == (CHOOSE i \in 1..Len(DigitChars) : DigitChars[i] = c) - 1

AllDigits(s) == \A i \in 1..Len(s) : IsDigit(s[i])
AllHexDigits(s) == \A i \in 1..Len(s) : IsHexDigit(s[i])

RECURSIVE DecimalValue(_)
DecimalValue(s) == IF s = <<>> THEN 0 ELSE DecimalValue(DropLast(s)) * 10 + DigitValue(s[Len(s)])

RECURSIVE HexValue(_)
HexValue(s) == IF s = <<>> THEN 0 ELSE HexValue(DropLast(s)) * 16 + HexDigitValue(s[Len(s)])

RECURSIVE Pow10(_)
Pow10(n) == IF n = 0 THEN 1 ELSE 10 * Pow10(n - 1)

InfinityText == <<"I","n","f","i","n","i","t","y">>

\* the digits before the point at p (0: no point), and those after it
IntegerPart(s, p) == IF p = 0 THEN s ELSE SubSeq(s, 1, p - 1)
FractionPart(s, p) == IF p = 0 THEN <<>> ELSE SubSeq(s, p + 1, Len(s))

\* digits, digits. , digits.digits , .digits
IsDecimalAt(s, p) ==
    /\ AllDigits(IntegerPart(s, p))
    /\ AllDigits(FractionPart(s, p))
    /\ Len(IntegerPart(s, p)) + Len(FractionPart(s, p)) > 0

IsDecimalLiteral(s) == IsDecimalAt(s, IndexOf(s, "."))

Signed(mag, neg) == IF neg THEN 0 - mag ELSE mag

DecimalAt(s, p, neg) ==
    Finite(Signed(DecimalValue(IntegerPart(s, p) \o FractionPart(s, p)), neg),
           Pow10(Len(FractionPart(s, p))))

DecimalLiteralValue(s, neg) == DecimalAt(s, IndexOf(s, "."), neg)

\* Number(raw): the StringToNumber conversion.  White space is trimmed; the
\* empty string is 0; a signed decimal literal, a signed Infinity and an
\* unsigned hexadecimal literal denote their value; anything else is NaN.
\* Exponent, binary and octal literals are outside the alphabet the model
\* draws raw values from.
StringNumericLiteral(s, body, neg) ==
    CASE s = <<>> -> Finite(0, 1)
      [] Len(s) > 2 /\ s[1] = "0" /\ s[2] \in {"x", "X"} /\ AllHexDigits(SubSeq(s, 3, Len(s))) ->
            Finite(HexValue(SubSeq(s, 3, Len(s))), 1)
      [] s /= <<>> /\ body = InfinityText -> Infinite(neg)
      [] s /= <<>> /\ IsDecimalLiteral(body) -> DecimalLiteralValue(body, neg)
      [] OTHER -> NaN

Unsigned(s) == IF s /= <<>> /\ Head(s) \in {"+", "-"} THEN Tail(s) ELSE s

TrimmedToNumber(s) == StringNumericLiteral(s, Unsigned(s), s /= <<>> /\ Head(s) = "-")

StringToNumber(raw) == TrimmedToNumber(Trim(raw))

---------------------------------------------------------------------------
(* The patterns of the string kinds *)

IsAlnum(c) == IsDigit(c) \/ IsLower(LowerChar(c))

\* patterns.email: /^[^\s@]+@[^\s@]+\.[^\s@]+$/
emailAt(s, at, domain) ==
    /\ \A i \in 1..Len(s) : ~IsSpace(s[i])
    /\ at > 1
    /\ ~Includes(domain, "@")
    /\ \E i \in 2..(Len(domain) - 1) : domain[i] = "."

emailPattern(s) == emailAt(s, IndexOf(s, "@"), SubSeq(s, IndexOf(s, "@") + 1, Len(s)))

\* patterns.uuid: 8-4-4-4-12 hexadecimal digits, case-insensitive
uuidPattern(s) ==
    /\ Len(s) = 36
    /\ \A i \in 1..36 : IF i \in {9, 14, 19, 24} THEN s[i] = "-" ELSE IsHexDigit(s[i])

\* [a-z0-9](?:[a-z0-9-]*[a-z0-9])?, case-insensitive
IsHostLabel(l) ==
    /\ l /= <<>>
    /\ IsAlnum(l[1]) /\ IsAlnum(l[Len(l)])
    /\ \A i \in 1..Len(l) : IsAlnum(l[i]) \/ l[i] = "-"

\* patterns.host: dotted labels ending in two or more letters, localhost,
\* or four dotted groups of one to three digits; case-insensitive
hostParts(s, parts, n) ==
    \/ /\ n >= 2
       /\ \A i \in 1..(n - 1) : IsHostLabel(parts[i])
       /\ Len(parts[n]) >= 2
       /\ \A i \in 1..Len(parts[n]) : IsLower(LowerChar(parts[n][i]))
    \/ ToLowerCase(s) = <<"l","o","c","a","l","h","o","s","t">>
    \/ /\ n = 4
       /\ \A i \in 1..4 : Len(parts[i]) \in 1..3 /\ AllDigits(parts[i])

hostPattern(s) == hostParts(s, Split(s, "."), Len(Split(s, ".")))

SpecialSchemes == { <<"h","t","t","p">>, <<"h","t","t","p","s">>, <<"f","t","p">>,
                    <<"w","s">>, <<"w","s","s">> }

RECURSIVE SkipSlashes(_)
SkipSlashes(s) == IF s /= <<>> /\ Head(s) \in {"/", "\\"} THEN SkipSlashes(Tail(s)) ELSE s

\* new URL(raw) returns (TRUE) or throws (FALSE).  The fragment of the URL
\* parser the model covers: a scheme (a letter, then letters, digits, +, -
\* or .) and a colon are needed; after a special scheme the host that
\* follows the slashes must not be empty.
URLParts(colon, scheme, rest) ==
    /\ colon > 1
    /\ IsLower(scheme[1])
    /\ \A i \in 1..Len(scheme) : IsAlnum(scheme[i]) \/ scheme[i] \in {"+", "-", "."}
    /\ scheme \in SpecialSchemes => (rest /= <<>> /\ Head(rest) \notin {"?", "#", ":"})

URLAt(s, colon) ==
    URLParts(colon, ToLowerCase(SubSeq(s, 1, colon - 1)), SkipSlashes(SubSeq(s, colon + 1, Len(s))))

TrimmedURLParses(s) == URLAt(s, IndexOf(s, ":"))

URLParses(raw) == TrimmedURLParses(Trim(raw))

\* the JSON number grammar: -? (0 | [1-9] digits) (. digits+)?
JsonNumberAt(body, p, int) ==
    /\ int /= <<>> /\ AllDigits(int)
    /\ Len(int) > 1 => int[1] /= "0"
    /\ p > 0 => (p < Len(body) /\ AllDigits(SubSeq(body, p + 1, Len(body))))

JsonNumberBody(body) == JsonNumberAt(body, IndexOf(body, "."), IntegerPart(body, IndexOf(body, ".")))

IsJsonNumber(s) == JsonNumberBody(IF s /= <<>> /\ Head(s) = "-" THEN Tail(s) ELSE s)

\* JSON.parse(raw): [ok |-> TRUE, value] or [ok |-> FALSE] when it throws.
\* The fragment of JSON the model covers: the literals, numbers, strings
\* without escapes, and the empty array and object.
JSONText(s, n) ==
    CASE s = <<"t","r","u","e">> -> [ok |-> TRUE, value |-> Bool(TRUE)]
      [] s = <<"f","a","l","s","e">> -> [ok |-> TRUE, value |-> Bool(FALSE)]
      [] s = <<"n","u","l","l">> -> [ok |-> TRUE, value |-> Null]
      [] s = <<"[","]">> -> [ok |-> TRUE, value |-> Arr(<<>>)]
      [] s = <<"{","}">> -> [ok |-> TRUE, value |-> Obj(<<>>)]
      [] IsJsonNumber(s) -> [ok |-> TRUE, value |-> Num(TrimmedToNumber(s))]
      [] /\ n >= 2 /\ s[1] = "\"" /\ s[n] = "\""
         /\ \A i \in 2..(n - 1) : s[i] \notin {"\"", "\\"} ->
            [ok |-> TRUE, value |-> Str(SubSeq(s, 2, n - 1))]
      [] OTHER -> [ok |-> FALSE, value |-> Undefined]

JSONParse(raw) == JSONText(Trim(raw), Len(Trim(raw)))

---------------------------------------------------------------------------
(* Type specifications.  A textual descriptor is [tag |-> "text", desc];  *)
(* an enum is [tag |-> "enum", allowed]; a custom validator is the object  *)
(* makeValidator builds.                                                   *)

isValidator(type) == type.tag = "validator"
isArray(type) == type.tag = "enum"

\* the base of a descriptor part that may end in "!"
Base(part) == IF EndsWith(part, "!") THEN DropLast(part) ELSE part

extractWithDefault(beforeEq, defaultValue) ==
    [base |-> Base(beforeEq), required |-> TRUE, defaultValue |-> Str(defaultValue)]

extractType(type) ==
    IF Includes(type, "=")
    THEN extractWithDefault(SubSeq(type, 1, IndexOf(type, "=") - 1),
                            SubSeq(type, IndexOf(type, "=") + 1, Len(type)))
    ELSE [base |-> Base(type), required |-> EndsWith(type, "!"), defaultValue |-> Undefined]

SecretWords == {
    <<"s","e","c","r","e","t">>, <<"p","a","s","s","w","o","r","d">>,
    <<"t","o","k","e","n">>, <<"k","e","y">>, <<"a","p","i">>, <<"a","u","t","h">>,
    <<"c","r","e","d","e","n","t","i","a","l">>, <<"p","r","i","v","a","t","e">> }

\* secretKeys.test(key)
secretKeys(key) == \E w \in SecretWords : Contains(ToLowerCase(key), w)

Quoted(value) == <<"\"">> \o value \o <<"\"">>
Masked == <<"\"", "[MASKED]", "\"">>

mask(value, key, shouldMask) ==
    IF ~shouldMask THEN Quoted(value)
    ELSE IF secretKeys(key) THEN Masked
    ELSE Quoted(value)

---------------------------------------------------------------------------
(* Custom validators.  The caller's function is a record that says how it  *)
(* behaves: [kind |-> "custom", accepts, thrown] returns its argument on   *)
(* the strings in accepts and throws on every other one; thrown says what  *)
(* it throws: an Error with a fixed message, an Error with the empty       *)
(* message, an Error whose message quotes the argument, or a value that    *)
(* is no Error.  [kind |-> "regex", pattern, error] is the function that   *)
(* regex builds.                                                           *)

UpperPattern == [source |-> <<"/^[A-Z]+$/">>]
DigitPattern == [source |-> <<"/^\\d+$/">>]

\* pattern.test(value)
RegExpTest(pattern, value) ==
    CASE pattern = UpperPattern -> value /= <<>> /\ \A i \in 1..Len(value) : IsUpper(value[i])
      [] pattern = DigitPattern -> value /= <<>> /\ AllDigits(value)

\* the message property of what a custom function throws
ThrownMessage(fn, value) ==
    CASE fn.thrown = "fixed" -> Str(<<"must be a hex color">>)
      [] fn.thrown = "empty" -> Str(<<>>)
      [] fn.thrown = "echo" -> Str(<<"invalid value ">> \o value)
      [] fn.thrown = "nonError" -> Undefined

\* fn(value): [threw |-> FALSE, value] or [threw |-> TRUE, message]
Call(fn, value) ==
    IF fn.kind = "regex"
    THEN IF ~RegExpTest(fn.pattern, value)
         THEN [threw |-> TRUE, value |-> Undefined,
               message |-> Coalesce(fn.error, Str(<<"must match pattern ">> \o fn.pattern.source))]
         ELSE [threw |-> FALSE, value |-> Str(value), message |-> Undefined]
    ELSE IF value \in fn.accepts
         THEN [threw |-> FALSE, value |-> Str(value), message |-> Undefined]
         ELSE [threw |-> TRUE, value |-> Undefined, message |-> ThrownMessage(fn, value)]

\* try { return { value: fn(value) } } catch (e) { ... }, r being what the
\* call of fn did
tryCall(v, r) ==
    IF ~r.threw
    THEN [value |-> r.value, error |-> Undefined, calls |-> 1]
    ELSE [value |-> Undefined, error |-> Coalesce(v.error, r.message), calls |-> 1]

\* the parse closure of the validator v; calls counts the calls of v.fn
validatorParse(v, value, key) ==
    IF value = Undefined \/ value = Str(<<>>)
    THEN IF v.required
         THEN [value |-> Undefined, error |-> Str(<<"required but not set">>), calls |-> 0]
         ELSE [value |-> Undefined, error |-> Undefined, calls |-> 0]
    ELSE tryCall(v, Call(v.fn, value.s))

makeValidator(fn, opts) ==
    [tag |-> "validator",
     required |-> Coalesce(opts.required, Bool(FALSE)).b,
     fn |-> fn,
     error |-> opts.error]

regex(pattern, opts) ==
    makeValidator([kind |-> "regex", pattern |-> pattern, error |-> opts.error],
                  [required |-> opts.required, error |-> opts.error])

---------------------------------------------------------------------------
(* parse *)

K_string == <<"s","t","r","i","n","g">>
K_number == <<"n","u","m","b","e","r">>
K_integer == <<"i","n","t","e","g","e","r">>
K_port == <<"p","o","r","t">>
K_boolean == <<"b","o","o","l","e","a","n">>
K_url == <<"u","r","l">>
K_email == <<"e","m","a","i","l">>
K_host == <<"h","o","s","t">>
K_uuid == <<"u","u","i","d">>
K_json == <<"j","s","o","n">>
K_stringArray == K_string \o <<"[","]">>
K_numberArray == K_number \o <<"[","]">>

TrueWords == { <<"t","r","u","e">>, <<"1">>, <<"y","e","s">>, <<"o","n">> }
FalseWords == { <<"f","a","l","s","e">>, <<"0">>, <<"n","o">>, <<"o","f","f">> }

Ok(value) == [value |-> value, error |-> Undefined, calls |-> 0]
Err(text) == [value |-> Undefined, error |-> Str(text), calls |-> 0]

\* raw.split(",").map((s) => s.trim())
TrimAll(parts) == [i \in 1..Len(parts) |-> Trim(parts[i])]
Items(raw) == TrimAll(Split(raw, ","))

\* the cases of the switch; got is mask(raw, key, maskSecrets)
numberCase(num, got) ==
    IF isNaN(num) THEN Err(<<"must be a number, got ">> \o got) ELSE Ok(Num(num))

integerCase(num, got) ==
    IF isNaN(num) \/ ~isInteger(num)
    THEN Err(<<"must be an integer, got ">> \o got)
    ELSE Ok(Num(num))

\* a port check whose range starts at 0
portCaseFromZero(port, got) ==
    IF isNaN(port) \/ ~isInteger(port) \/ LessThan(port, 0) \/ GreaterThan(port, 65535)
    THEN Err(<<"must be a valid port (1-65535), got ">> \o got)
    ELSE Ok(Num(port))

portCase(port, got) ==
    IF isNaN(port) \/ ~isInteger(port) \/ LessThan(port, 1) \/ GreaterThan(port, 65535)
    THEN Err(<<"must be a valid port (1-65535), got ">> \o got)
    ELSE Ok(Num(port))

booleanCase(lower, got) ==
    IF lower \in TrueWords THEN Ok(Bool(TRUE))
    ELSE IF lower \in FalseWords THEN Ok(Bool(FALSE))
    ELSE Err(<<"must be a boolean, got ">> \o got)

jsonCase(j, got) ==
    IF j.ok THEN Ok(j.value) ELSE Err(<<"must be valid JSON, got ">> \o got)

stringArrayCase(items) == Ok(Arr([i \in 1..Len(items) |-> Str(items[i])]))

numberArrayCase(nums, got) ==
    IF \E i \in 1..Len(nums) : isNaN(nums[i])
    THEN Err(<<"must be comma-separated numbers, got ">> \o got)
    ELSE Ok(Arr([i \in 1..Len(nums) |-> Num(nums[i])]))

ToNumbers(items) == [i \in 1..Len(items) |-> StringToNumber(items[i])]

\* the switch on the base kind, for a present raw string
coerce(base, raw, got) ==
    CASE base = K_string -> Ok(Str(raw))
      [] base = K_number -> numberCase(StringToNumber(raw), got)
      [] base = K_integer -> integerCase(StringToNumber(raw), got)
      [] base = K_port -> portCase(StringToNumber(raw), got)
      [] base = K_boolean -> booleanCase(ToLowerCase(raw), got)
      [] base = K_url ->
            IF URLParses(raw) THEN Ok(Str(raw)) ELSE Err(<<"must be a valid URL, got ">> \o got)
      [] base = K_email ->
            IF ~emailPattern(raw) THEN Err(<<"must be a valid email, got ">> \o got)
            ELSE Ok(Str(raw))
      [] base = K_host ->
            IF ~hostPattern(raw) THEN Err(<<"must be a valid host, got ">> \o got)
            ELSE Ok(Str(raw))
      [] base = K_uuid ->
            IF ~uuidPattern(raw) THEN Err(<<"must be a valid UUID, got ">> \o got)
            ELSE Ok(Str(raw))
      [] base = K_json -> jsonCase(JSONParse(raw), got)
      [] base = K_stringArray -> stringArrayCase(Items(raw))
      [] base = K_numberArray -> numberArrayCase(ToNumbers(Items(raw)), got)
      [] OTHER -> Ok(Str(raw))

\* a parse that never takes the empty string for an absent value
AbsentOnlyUndefined(raw, emptyAsUndefined) == raw = Undefined

\* whether a raw value counts as absent
Absent(raw, emptyAsUndefined) == raw = Undefined \/ (emptyAsUndefined /\ raw = Str(<<>>))

\* an enum that lets an absent value through as undefined
parseEnumOptional(value, type, key, emptyAsUndefined, maskSecrets) ==
    IF Absent(value, emptyAsUndefined)
    THEN Ok(Undefined)
    ELSE IF ~(\E i \in 1..Len(type.allowed) : type.allowed[i] = value.s)
    THEN Err(<<"must be one of: ">> \o Join(type.allowed, <<", ">>) \o <<", got ">>
             \o mask(value.s, key, maskSecrets))
    ELSE Ok(value)

parseEnum(value, type, key, emptyAsUndefined, maskSecrets) ==
    IF Absent(value, emptyAsUndefined)
    THEN Err(<<"required, must be one of: ">> \o Join(type.allowed, <<", ">>))
    ELSE IF ~(\E i \in 1..Len(type.allowed) : type.allowed[i] = value.s)
    THEN Err(<<"must be one of: ">> \o Join(type.allowed, <<", ">>) \o <<", got ">>
             \o mask(value.s, key, maskSecrets))
    ELSE Ok(value)

\* the second half of parse, raw being the value or the default
parseRaw(d, raw, key, emptyAsUndefined, maskSecrets) ==
    IF Absent(raw, emptyAsUndefined)
    THEN IF d.required THEN Err(<<"required but not set">>) ELSE Ok(Undefined)
    ELSE coerce(d.base, raw.s, mask(raw.s, key, maskSecrets))

\* the first half of parse, d being extractType(type)
parseDescriptor(d, value, key, emptyAsUndefined, maskSecrets) ==
    parseRaw(d,
             IF Absent(value, emptyAsUndefined) /\ d.defaultValue /= Undefined
             THEN d.defaultValue
             ELSE value,
             key, emptyAsUndefined, maskSecrets)

parseText(value, type, key, emptyAsUndefined, maskSecrets) ==
    parseDescriptor(extractType(type.desc), value, key, emptyAsUndefined, maskSecrets)

\* parse(value, type, key, emptyAsUndefined, maskSecrets): [value, error],
\* and calls, the number of calls of a caller's function it made
parse(value, type, key, emptyAsUndefined, maskSecrets) ==
    IF isValidator(type) THEN validatorParse(type, value, key)
    ELSE IF isArray(type) THEN parseEnum(value, type, key, emptyAsUndefined, maskSecrets)
    ELSE parseText(value, type, key, emptyAsUndefined, maskSecrets)

---------------------------------------------------------------------------
(* Objects.  An object is [fields, frozen]: fields maps each own key to    *)
(* its value.  The options object is a record whose fields are Undefined   *)
(* when not given.                                                         *)

EmptyFields == [k \in {} |-> Undefined]

\* obj[key] = value
Put(fields, key, value) ==
    [k \in (DOMAIN fields) \cup {key} |-> IF k = key THEN value ELSE fields[k]]

\* delete obj[key]
Remove(fields, key) == [k \in (DOMAIN fields) \ {key} |-> fields[k]]

\* source[envKey]
Lookup(source, envKey) ==
    IF envKey \in DOMAIN source.fields THEN source.fields[envKey] ELSE Undefined

\* process.env, the host's environment, read when no source is given
ProcessEnv == Obj(EmptyFields)

getEnvSource == ProcessEnv

\* the body of the loop after parse returned r: the error is recorded under
\* envKey, or the value under key
collect(acc, key, envKey, r) ==
    IF Truthy(r.error)
    THEN [acc EXCEPT !.errors = Append(@, envKey \o <<": ">> \o r.error.s),
                     !.calls = Append(@, r.calls)]
    ELSE [acc EXCEPT !.result = Put(@, key, r.value),
                     !.calls = Append(@, r.calls)]

\* a loop that reads the source under the schema key, the prefix left out
RECURSIVE snapFieldsBareKey(_, _, _, _, _, _)
snapFieldsBareKey(entries, source, prefix, emptyAsUndefined, maskSecrets, acc) ==
    IF entries = <<>> THEN acc
    ELSE snapFieldsBareKey(Tail(entries), source, prefix, emptyAsUndefined, maskSecrets,
                    collect(acc, Head(entries).key, prefix \o Head(entries).key,
                            parse(Lookup(source, Head(entries).key), Head(entries).type,
                                  Head(entries).key, emptyAsUndefined, maskSecrets)))

\* the loop of snap over Object.entries(schema): the result and the errors,
\* and calls, the calls of a caller's function made for each field
RECURSIVE snapFields(_, _, _, _, _, _)
snapFields(entries, source, prefix, emptyAsUndefined, maskSecrets, acc) ==
    IF entries = <<>> THEN acc
    ELSE snapFields(Tail(entries), source, prefix, emptyAsUndefined, maskSecrets,
                    collect(acc, Head(entries).key, prefix \o Head(entries).key,
                            parse(Lookup(source, prefix \o Head(entries).key), Head(entries).type,
                                  Head(entries).key, emptyAsUndefined, maskSecrets)))

isFunction(x) == x.t = "function"

CallbackError == <<"error thrown by the onError callback">>

\* what a call leaves behind: it returned value or threw thrown; logged are
\* the messages written to console.error, called the arguments of the calls
\* of the onError callback, calls the calls of a caller's function
Returned(value, logged, called, calls) ==
    [kind |-> "return", value |-> value, thrown |-> Undefined,
     logged |-> logged, called |-> called, calls |-> calls]
Threw(thrown, logged, called, calls) ==
    [kind |-> "throw", value |-> Undefined, thrown |-> Str(thrown),
     logged |-> logged, called |-> called, calls |-> calls]

\* a result handed back as a plain object
notFrozen(fields) == [fields |-> fields, frozen |-> FALSE]

\* Object.freeze(result)
freeze(fields) == [fields |-> fields, frozen |-> TRUE]

\* a dispatch that calls the callback whether or not a field failed
dispatchAlways(acc, onError, message) ==
    IF isFunction(onError)
    THEN IF onError.throws
         THEN Threw(CallbackError, <<>>, <<acc.errors>>, acc.calls)
         ELSE Returned(freeze(acc.result), <<>>, <<acc.errors>>, acc.calls)
    ELSE IF Len(acc.errors) = 0
    THEN Returned(freeze(acc.result), <<>>, <<>>, acc.calls)
    ELSE IF onError = Str(<<"log">>)
    THEN Returned(freeze(acc.result), <<message>>, <<>>, acc.calls)
    ELSE Threw(message, <<>>, <<>>, acc.calls)

\* snap once the loop is done: the dispatch on the error policy
dispatch(acc, onError, message) ==
    IF Len(acc.errors) > 0
    THEN IF onError = Str(<<"log">>)
         THEN Returned(freeze(acc.result), <<message>>, <<>>, acc.calls)
         ELSE IF isFunction(onError)
         THEN IF onError.throws
              THEN Threw(CallbackError, <<>>, <<acc.errors>>, acc.calls)
              ELSE Returned(freeze(acc.result), <<>>, <<acc.errors>>, acc.calls)
         ELSE Threw(message, <<>>, <<>>, acc.calls)
    ELSE Returned(freeze(acc.result), <<>>, <<>>, acc.calls)

Message(errors) == <<"snapenv validation failed:\n  ">> \o Join(errors, <<"\n  ">>)

report(acc, onError) == dispatch(acc, onError, Message(acc.errors))

snap(sch, opts) ==
    report(snapFields(sch,
                      Coalesce(opts.source, getEnvSource),
                      Coalesce(opts.prefix, Str(<<>>)).s,
                      Coalesce(opts.emptyAsUndefined, Bool(TRUE)).b,
                      Coalesce(opts.maskSecrets, Bool(FALSE)).b,
                      [result |-> EmptyFields, errors |-> <<>>, calls |-> <<>>]),
           opts.onError)

\* the callback of validate: (e) => errors.push(...e)
PushAll == [t |-> "function", throws |-> FALSE]

RECURSIVE Flatten(_)
Flatten(lists) == IF lists = <<>> THEN <<>> ELSE Head(lists) \o Flatten(Tail(lists))

\* validate once snap is done: r is what snap did, errors what the callback
\* pushed
validateResult(r, errors) ==
    IF r.kind = "throw" THEN r
    ELSE IF Len(errors) > 0
    THEN Returned([success |-> FALSE, errors |-> errors], r.logged, r.called, r.calls)
    ELSE Returned([success |-> TRUE, data |-> r.value], r.logged, r.called, r.calls)

collected(r) == validateResult(r, Flatten(r.called))

validate(sch, opts) == collected(snap(sch, [opts EXCEPT !.onError = PushAll]))

\* { ...a, ...b }
Spread(a, b) ==
    [k \in (DOMAIN a) \cup (DOMAIN b) |-> IF k \in DOMAIN b THEN b[k] ELSE a[k]]

extend(a, b) == freeze(Spread(a.fields, b.fields))

\* Object.prototype, which every object of the program inherits from; of
\* its properties the model keeps toString
N_toString == <<"t","o","S","t","r","i","n","g">>
ObjectPrototype == (N_toString :> [t |-> "function", native |-> "toString"])

\* key in obj: an own property or an inherited one
In(key, obj) == key \in DOMAIN obj.fields \/ key \in DOMAIN ObjectPrototype

\* obj[key]
Get(obj, key) ==
    IF key \in DOMAIN obj.fields THEN obj.fields[key]
    ELSE IF key \in DOMAIN ObjectPrototype THEN ObjectPrototype[key]
    ELSE Undefined

RECURSIVE pickFields(_, _, _)
pickFields(obj, keys, result) ==
    IF keys = <<>> THEN result
    ELSE pickFields(obj, Tail(keys),
                    IF In(Head(keys), obj)
                    THEN Put(result, Head(keys), Get(obj, Head(keys)))
                    ELSE result)

pick(obj, keys) == freeze(pickFields(obj, keys, EmptyFields))

RECURSIVE omitFields(_, _)
omitFields(result, keys) ==
    IF keys = <<>> THEN result ELSE omitFields(Remove(result, Head(keys)), Tail(keys))

omit(obj, keys) == freeze(omitFields(obj.fields, keys))

---------------------------------------------------------------------------
(* The inputs the specifications draw from *)

MaxFields == 2

N_API_KEY == <<"A","P","I","_","K","E","Y">>
N_PORT == <<"P","O","R","T">>
N_DB == <<"D","B">>
Names == {N_API_KEY, N_PORT, N_DB}

Text(desc) == [tag |-> "text", desc |-> desc]
Enum(allowed) == [tag |-> "enum", allowed |-> allowed]
Custom(accepts, thrown) == [kind |-> "custom", accepts |-> accepts, thrown |-> thrown]
ValidatorOptions(required, error) == [required |-> required, error |-> error]

R_80 == <<"8","0">>
R_x == <<"x">>

\* a required string, an optional port, an enum, and a required custom
\* validator whose function throws an Error with the empty message
AggregateTypes == {
    Text(K_string \o <<"!">>),
    Text(K_port),
    Enum(<< R_80, <<"9","0">> >>),
    makeValidator(Custom({R_80}, "empty"), ValidatorOptions(Bool(TRUE), Undefined)) }

AggregateRaws == {R_80, R_x}

\* the schemas of at most MaxFields fields over names and types
SchemasOver(names, types) ==
    UNION { { sch \in [1..n -> [key : names, type : types]] :
                \A i, j \in 1..n : i /= j => sch[i].key /= sch[j].key } : n \in 0..MaxFields }

\* the mappings that give some of the keys a raw value
SourcesOver(keys, raws) ==
    UNION { { Obj([k \in D |-> Str(f[k])]) : f \in [D -> raws] } : D \in SUBSET keys }

Keys(sch) == { sch[i].key : i \in 1..Len(sch) }

OnErrorPolicies == { Undefined, Str(<<"throw">>), Str(<<"log">>),
                     [t |-> "function", throws |-> FALSE],
                     [t |-> "function", throws |-> TRUE] }

AggregateOptions(sch) ==
    [source : SourcesOver(Keys(sch), AggregateRaws),
     prefix : {Undefined},
     onError : OnErrorPolicies,
     emptyAsUndefined : {Undefined},
     maskSecrets : {Undefined}]

---------------------------------------------------------------------------
(* The inputs of the one-field specification: every kind of type          *)
(* specification, and raw values that each kind accepts and rejects       *)

K_float == <<"f","l","o","a","t">>
Kinds == { K_string, K_number, K_integer, K_port, K_boolean, K_url, K_email, K_host,
           K_uuid, K_json, K_stringArray, K_numberArray, K_float }

R_empty == <<>>
R_space == <<" ">>
R_8080 == <<"8","0","8","0">>
R_0 == <<"0">>
R_decimal == <<"3",".","1","4">>
R_abc == <<"a","b","c">>
R_ABC == <<"A","B","C">>
R_on == <<"o","n">>
R_url == <<"h","t","t","p",":","/","/","a",".","c","o">>
R_email == <<"a","@","b",".","c","o">>
R_localhost == <<"l","o","c","a","l","h","o","s","t">>
R_uuid == <<"1","2","3","e","4","5","6","7","-","e","8","9","b","-","1","2","d","3","-",
            "a","4","5","6","-","4","2","6","6","1","4","1","7","4","0","0","0">>
R_json == <<"{","}">>
R_list == <<"8","0",","," ","x">>

FieldRaws == { R_empty, R_space, R_8080, R_0, R_decimal, R_abc, R_ABC, R_on, R_url,
               R_email, R_localhost, R_uuid, R_json, R_list }

\* a default literal the kind accepts
DefaultOf(kind) ==
    CASE kind = K_boolean -> R_on
      [] kind = K_url -> R_url
      [] kind = K_email -> R_email
      [] kind = K_host -> R_localhost
      [] kind = K_uuid -> R_uuid
      [] OTHER -> R_8080

\* each kind plain, required, with a default, with both, and with the
\* empty default; a default its kind rejects; a default that holds an "="
TextTypes ==
    UNION { { Text(k), Text(k \o <<"!">>),
              Text(k \o <<"=">> \o DefaultOf(k)), Text(k \o <<"!","=">> \o DefaultOf(k)),
              Text(k \o <<"=">>), Text(k \o <<"!","=">>) } : k \in Kinds }
    \cup { Text(K_port \o <<"=">> \o R_0), Text(K_string \o <<"=","a","=","b">>) }

EnumTypes == { Enum(<< R_abc, R_on >>), Enum(<< R_ABC >>) }

ErrorOverrides == { Undefined, Str(<<>>), Str(<<"custom error">>) }

ValidatorTypes ==
    { makeValidator(Custom({R_abc}, thrown), ValidatorOptions(required, error)) :
        thrown \in {"fixed", "empty", "echo", "nonError"},
        required \in {Undefined, Bool(TRUE)},
        error \in ErrorOverrides }
    \cup { regex(UpperPattern, ValidatorOptions(required, error)) :
            required \in {Undefined, Bool(TRUE)}, error \in ErrorOverrides }

FieldTypes == TextTypes \cup EnumTypes \cup ValidatorTypes
FieldNames == {N_API_KEY, N_PORT}

P_API == <<"A","P","I","_">>
Prefixes == {Undefined, Str(P_API)}

\* the key the field is read from holds any raw value or none; the field's
\* other key (bare or prefixed) holds 8080 or nothing
OtherKeys(name, prefix) == {name, P_API \o name} \ {Coalesce(prefix, Str(<<>>)).s \o name}

FieldSources(name, prefix) ==
    { Obj(Spread(a.fields, b.fields)) :
        a \in SourcesOver({Coalesce(prefix, Str(<<>>)).s \o name}, FieldRaws),
        b \in SourcesOver(OtherKeys(name, prefix), {R_8080}) }

Flags == {Undefined, Bool(TRUE), Bool(FALSE)}

---------------------------------------------------------------------------
(* The calls *)

\* the caller keeps the object a call returned
Keep(h, r, by) ==
    IF r.kind = "return" THEN Append(h, [fields |-> r.value.fields, frozen |-> r.value.frozen, by |-> by])
    ELSE h

Snap ==
    /\ pc = "ready"
    /\ ret' = snap(schema, options)
    /\ heap' = Keep(heap, ret', "snap")
    /\ pc' = "done"
    /\ op' = "snap"
    /\ UNCHANGED <<schema, options>>

Validate ==
    /\ pc = "ready"
    /\ ret' = validate(schema, options)
    /\ heap' = IF ret'.kind = "return" /\ ret'.value.success
               THEN Append(heap, [fields |-> ret'.value.data.fields,
                                  frozen |-> ret'.value.data.frozen, by |-> "validate"])
               ELSE heap
    /\ pc' = "done"
    /\ op' = "validate"
    /\ UNCHANGED <<schema, options>>

NoCall == [kind |-> "none"]

Init ==
    /\ schema \in SchemasOver(Names, AggregateTypes)
    /\ options \in AggregateOptions(schema)
    /\ pc = "ready"
    /\ op = "none"
    /\ ret = NoCall
    /\ heap = <<>>

Next == Snap \/ Validate

Spec == Init /\ [][Next]_vars

InitField ==
    /\ schema \in { <<[key |-> n, type |-> t]>> : n \in FieldNames, t \in FieldTypes }
    /\ \E prefix \in Prefixes :
            options \in [source : FieldSources(schema[1].key, prefix),
                         prefix : {prefix},
                         onError : {PushAll},
                         emptyAsUndefined : Flags,
                         maskSecrets : Flags]
    /\ pc = "ready"
    /\ op = "none"
    /\ ret = NoCall
    /\ heap = <<>>

NextField == Snap

SpecField == InitField /\ [][NextField]_vars

---------------------------------------------------------------------------
(* The caller's objects.  The caller keeps the maps the calls return next  *)
(* to plain objects of its own, passes any of them to extend, pick and     *)
(* omit, and tries to assign to and delete from any of them.               *)

MaxObjects == 2

MapNames == {N_PORT, N_DB}
MapTypes == { Text(K_port) }
MapPolicies == { Undefined, Str(<<"log">>), [t |-> "function", throws |-> FALSE] }
MapSchemas == { sch \in SchemasOver(MapNames, MapTypes) : Len(sch) > 0 /\ sch[1].key = N_PORT }
KeyLists == { <<N_PORT>>, <<N_PORT, N_DB>>, <<N_toString>> }
Literals == { EmptyFields, (N_DB :> Str(R_x)) }

MapOptions(sch) ==
    [source : SourcesOver(Keys(sch), {R_80}),
     prefix : {Undefined},
     onError : MapPolicies,
     emptyAsUndefined : {Undefined},
     maskSecrets : {Undefined}]

New(fields, frozen, by) == [fields |-> fields, frozen |-> frozen, by |-> by]
Made(obj, by) == New(obj.fields, obj.frozen, by)

\* the caller writes an object literal
Literal ==
    /\ Len(heap) < MaxObjects
    /\ \E fields \in Literals : heap' = Append(heap, New(fields, FALSE, "caller"))
    /\ op' = "literal"
    /\ UNCHANGED <<schema, options, pc, ret>>

Extend ==
    /\ Len(heap) < MaxObjects
    /\ \E i, j \in 1..Len(heap) : heap' = Append(heap, Made(extend(heap[i], heap[j]), "extend"))
    /\ op' = "extend"
    /\ UNCHANGED <<schema, options, pc, ret>>

Pick ==
    /\ Len(heap) < MaxObjects
    /\ \E i \in 1..Len(heap), keys \in KeyLists :
            heap' = Append(heap, Made(pick(heap[i], keys), "pick"))
    /\ op' = "pick"
    /\ UNCHANGED <<schema, options, pc, ret>>

Omit ==
    /\ Len(heap) < MaxObjects
    /\ \E i \in 1..Len(heap), keys \in KeyLists :
            heap' = Append(heap, Made(omit(heap[i], keys), "omit"))
    /\ op' = "omit"
    /\ UNCHANGED <<schema, options, pc, ret>>

\* obj[key] = value: a frozen object stays as it is
assign(obj, key, value) ==
    IF obj.frozen THEN obj ELSE [obj EXCEPT !.fields = Put(@, key, value)]

\* delete obj[key]: a frozen object stays as it is
delete(obj, key) ==
    IF obj.frozen THEN obj ELSE [obj EXCEPT !.fields = Remove(@, key)]

Assign ==
    /\ \E i \in 1..Len(heap), key \in MapNames :
            heap' = [heap EXCEPT ![i] = assign(@, key, Str(R_x))]
    /\ op' = "assign"
    /\ UNCHANGED <<schema, options, pc, ret>>

Delete ==
    /\ \E i \in 1..Len(heap), key \in MapNames :
            heap' = [heap EXCEPT ![i] = delete(@, key)]
    /\ op' = "delete"
    /\ UNCHANGED <<schema, options, pc, ret>>

InitMaps ==
    /\ schema \in MapSchemas
    /\ options \in MapOptions(schema)
    /\ pc = "ready"
    /\ op = "none"
    /\ ret = NoCall
    /\ heap = <<>>

NextMaps == Snap \/ Validate \/ Literal \/ Extend \/ Pick \/ Omit \/ Assign \/ Delete

SpecMaps == InitMaps /\ [][NextMaps]_vars

---------------------------------------------------------------------------
(* The numeric kinds: one field of a numeric kind over numeric raw values  *)

NumberKinds == { K_number, K_integer, K_port, K_numberArray }
NumberTypes == UNION { { Text(k), Text(k \o <<"!">>) } : k \in NumberKinds }

R_1 == <<"1">>
R_65535 == <<"6","5","5","3","5">>
R_65536 == <<"6","5","5","3","6">>
R_70000 == <<"7","0","0","0","0">>
R_minus5 == <<"-","5">>
R_plus5 == <<"+","5">>
R_padded == <<" ","4","2"," ">>
R_5point == <<"5",".">>
R_point == <<".">>
R_Infinity == <<"I","n","f","i","n","i","t","y">>
R_minusInfinity == <<"-","I","n","f","i","n","i","t","y">>
R_hex == <<"0","x","1","F">>
R_pair == <<"1",","," ","2",".","5">>
R_gap == <<"1",",",",","2">>
R_hexList == <<"1",",","0","x","1","F">>

NumberRaws == { R_empty, R_space, R_0, R_1, R_80, R_8080, R_65535, R_65536, R_70000,
                R_minus5, R_plus5, R_padded, R_decimal, R_5point, R_point, R_abc,
                R_Infinity, R_minusInfinity, R_hex, R_list, R_pair, R_gap, R_hexList }

InitNumber ==
    /\ schema \in { <<[key |-> N_PORT, type |-> t]>> : t \in NumberTypes }
    /\ options \in [source : SourcesOver({N_PORT}, NumberRaws),
                    prefix : {Undefined},
                    onError : {PushAll},
                    emptyAsUndefined : Flags,
                    maskSecrets : {Undefined}]
    /\ pc = "ready"
    /\ op = "none"
    /\ ret = NoCall
    /\ heap = <<>>

NextNumber == Snap \/ Validate

SpecNumber == InitNumber /\ [][NextNumber]_vars

---------------------------------------------------------------------------
(* What the claims speak of *)

Prefix(opts) == Coalesce(opts.prefix, Str(<<>>)).s
EmptyAsUndefined(opts) == Coalesce(opts.emptyAsUndefined, Bool(TRUE)).b
MaskSecrets(opts) == Coalesce(opts.maskSecrets, Bool(FALSE)).b

\* the key a field is read from, and the raw value found there
EnvKey(e, opts) == Prefix(opts) \o e.key
Raw(e, opts) == Lookup(Coalesce(opts.source, getEnvSource), EnvKey(e, opts))

\* what parse gives for a field of the schema
Parsed(e, opts) == parse(Raw(e, opts), e.type, e.key, EmptyAsUndefined(opts), MaskSecrets(opts))

\* A field fails when it is required and missing, when its enum or its
\* coercer rejects the value, or when its custom function throws.
FieldFails(e, opts) ==
    IF isValidator(e.type)
    THEN IF Raw(e, opts) = Undefined \/ Raw(e, opts) = Str(<<>>)
         THEN e.type.required
         ELSE Call(e.type.fn, Raw(e, opts).s).threw
    ELSE Parsed(e, opts).error /= Undefined

FailingFields(sch, opts) == SelectSeq(sch, LAMBDA e : FieldFails(e, opts))
PassingFields(sch, opts) == SelectSeq(sch, LAMBDA e : ~FieldFails(e, opts))

\* the error list of a call: the entry of every field parse gave a
\* non-empty error for, in schema order
ErrorText(e, opts) == IF Parsed(e, opts).error.t = "string" THEN Parsed(e, opts).error.s ELSE <<>>
Entry(e, opts) == EnvKey(e, opts) \o <<": ">> \o ErrorText(e, opts)
Entries(fields, opts) == [i \in 1..Len(fields) |-> Entry(fields[i], opts)]
ErrorList(sch, opts) == Entries(SelectSeq(sch, LAMBDA e : ErrorText(e, opts) /= <<>>), opts)

StartsWith(s, pre) == Len(s) >= Len(pre) /\ SubSeq(s, 1, Len(pre)) = pre

\* the entries of list are those of the fields, one each, in their order
OneEntryEach(list, fields, opts) ==
    /\ Len(list) = Len(fields)
    /\ \A i \in 1..Len(list) : StartsWith(list[i], EnvKey(fields[i], opts) \o <<": ">>)

Done(o) == pc = "done" /\ op = o
CallbackGiven == isFunction(options.onError)

\* the error list a finished call reported: the errors of validate, the
\* arguments of the onError callback of snap
Reported ==
    IF op = "validate"
    THEN IF ret.value.success THEN <<>> ELSE ret.value.errors
    ELSE Flatten(ret.called)

---------------------------------------------------------------------------
\* C1: after validate, and after snap with an onError callback, the error
\* list holds exactly one entry for each failing field of the schema and
\* none for a passing field, in schema order.
C1_NoShortCircuit ==
    (Done("validate") \/ (Done("snap") /\ CallbackGiven))
        => OneEntryEach(Reported, FailingFields(schema, options), options)

\* the values of the fields: what the result map holds for them
ValuesOf(fields, opts) ==
    [k \in Keys(fields) |->
        Parsed(CHOOSE e \in {fields[i] : i \in 1..Len(fields)} : e.key = k, opts).value]

Throws == options.onError \in {Undefined, Str(<<"throw">>)}
Logs == options.onError = Str(<<"log">>)

\* C5: when at least one field fails, snap under "throw" (or no policy)
\* raises the aggregated message (the header, then one indented line per
\* failing field in schema order) and returns no map; under "log" it does
\* not raise, writes that message once to console.error, and returns a
\* frozen map of exactly the fields that did not fail.
C5_ThrowAndLog ==
    (Done("snap") /\ FailingFields(schema, options) /= <<>>) =>
        /\ Throws =>
            /\ ret.kind = "throw"
            /\ ret.thrown = Str(Message(Entries(FailingFields(schema, options), options)))
            /\ ret.value = Undefined
        /\ Logs =>
            /\ ret.kind = "return"
            /\ ret.logged = << Message(Entries(FailingFields(schema, options), options)) >>
            /\ ret.value = freeze(ValuesOf(PassingFields(schema, options), options))

\* the fields the error list has no entry for
Kept(sch, opts) == SelectSeq(sch, LAMBDA e : ErrorText(e, opts) = <<>>)

\* C6, as claimed: with an onError callback every snap call invokes the
\* callback exactly once with the full ordered error list, does not raise,
\* and returns the partial frozen map.
C6_CallbackOncePerCall ==
    (Done("snap") /\ CallbackGiven) =>
        /\ ret.called = << ErrorList(schema, options) >>
        /\ ret.kind = "return"
        /\ ret.value = freeze(ValuesOf(Kept(schema, options), options))

\* C6, amended: with an onError callback, a snap call whose error list is
\* not empty invokes the callback exactly once with the full ordered error
\* list, and a call whose error list is empty does not invoke it; the call
\* raises only when the callback itself raises, and otherwise returns the
\* partial frozen map.
C6_CallbackOncePerFailure ==
    (Done("snap") /\ CallbackGiven) =>
        /\ ret.called = IF ErrorList(schema, options) = <<>> THEN <<>>
                        ELSE << ErrorList(schema, options) >>
        /\ ret.kind = "throw" <=> (options.onError.throws /\ ErrorList(schema, options) /= <<>>)
        /\ ret.kind = "return" => ret.value = freeze(ValuesOf(Kept(schema, options), options))

\* a call with a callback that reported one failing field and kept another
C6_Witness ==
    /\ Done("snap") /\ CallbackGiven
    /\ ret.kind = "return"
    /\ Len(ret.called) = 1 /\ Len(ret.called[1]) >= 1
    /\ DOMAIN ret.value.fields /= {}

\* C7: validate never raises; it returns success = TRUE with the frozen
\* value map exactly when no field fails, and otherwise success = FALSE
\* with the ordered error list and no data.
C7_ValidateResult ==
    Done("validate") =>
        /\ ret.kind = "return"
        /\ ret.value.success <=> FailingFields(schema, options) = <<>>
        /\ ret.value.success =>
            ret.value = [success |-> TRUE, data |-> freeze(ValuesOf(schema, options))]
        /\ ~ret.value.success =>
            ret.value = [success |-> FALSE,
                         errors |-> Entries(FailingFields(schema, options), options)]

---------------------------------------------------------------------------
\* the entries the finished call reported for the field e
EntriesFor(e) == SelectSeq(Reported, LAMBDA x : StartsWith(x, EnvKey(e, options) \o <<": ">>))

\* the finished call resolved the field e as r, a result of parse: the
\* value is in the map and no entry is reported, or the error is the one
\* entry reported and the map lacks the field
Shows(e, r) ==
    IF r.error = Undefined
    THEN /\ ret.kind = "return"
         /\ e.key \in DOMAIN ret.value.fields
         /\ ret.value.fields[e.key] = r.value
         /\ EntriesFor(e) = <<>>
    ELSE /\ EntriesFor(e) = << EnvKey(e, options) \o <<": ">> \o r.error.s >>
         /\ ret.kind = "return" => e.key \notin DOMAIN ret.value.fields

Fields == { schema[i] : i \in 1..Len(schema) }
IsText(e) == e.type.tag = "text"
IsEnum(e) == e.type.tag = "enum"
HasDefault(e) == IsText(e) /\ Includes(e.type.desc, "=")
DefaultLiteral(e) == extractType(e.type.desc).defaultValue.s
BaseKind(e) == extractType(e.type.desc).base
Unset(e) == Absent(Raw(e, options), EmptyAsUndefined(options))
NotSet(e) == EnvKey(e, options) \o <<": ", "required but not set">>

\* coercing the string raw under the base kind of the field e
Coerced(e, raw) == coerce(BaseKind(e), raw, mask(raw, e.key, MaskSecrets(options)))

\* C2: a field whose descriptor carries a default literal, when its source
\* key is absent (or empty, with emptyAsUndefined), is resolved by coercing
\* the default literal under the base kind, and never gives the error
\* "required but not set".
C2_DefaultNeverUnset ==
    Done("snap") =>
        \A e \in Fields : (HasDefault(e) /\ Unset(e)) =>
            /\ Shows(e, Coerced(e, DefaultLiteral(e)))
            /\ EntriesFor(e) /= << NotSet(e) >>

\* the options with the key k taken out of the source
WithoutKey(opts, k) == [opts EXCEPT !.source = Obj(Remove(opts.source.fields, k))]

Matched(e, raw) ==
    IF \E i \in 1..Len(e.type.allowed) : e.type.allowed[i] = raw
    THEN Ok(Str(raw))
    ELSE Err(<<"must be one of: ">> \o Join(e.type.allowed, <<", ">>) \o <<", got ">>
             \o mask(raw, e.key, MaskSecrets(options)))

\* C4: with emptyAsUndefined = false, the empty string is a present value
\* for every kind of field: the coercer, the enum matcher or the custom
\* function gets it, and the field is never resolved as absent.
C4_EmptyIsPresent ==
    (Done("snap") /\ ~EmptyAsUndefined(options)) =>
        \A i \in 1..Len(schema) : Raw(schema[i], options) = Str(<<>>) =>
            /\ IsText(schema[i]) => Shows(schema[i], Coerced(schema[i], <<>>))
            /\ IsEnum(schema[i]) => Shows(schema[i], Matched(schema[i], <<>>))
            /\ isValidator(schema[i].type) => ret.calls[i] = 1
            /\ EntriesFor(schema[i]) /= << NotSet(schema[i]) >>

\* the options with the key k of the source set to the string raw
WithRaw(opts, k, raw) == [opts EXCEPT !.source = Obj(Put(opts.source.fields, k, Str(raw)))]

Secret(e) == MaskSecrets(options) /\ secretKeys(e.key)

\* C8: the error text of a failing present value of a field whose name
\* matches the secret pattern, with maskSecrets, contains [MASKED] and is
\* the same for every raw value the field fails on; for any other field,
\* and without maskSecrets, it quotes the raw value.
C8_Masking ==
    Done("snap") =>
        \A e \in Fields : (~Unset(e) /\ FieldFails(e, options)) =>
            IF Secret(e)
            THEN /\ Len(EntriesFor(e)) = 1
                 /\ Contains(EntriesFor(e)[1], <<"[MASKED]">>)
                 /\ \A raw \in FieldRaws \ {<<>>} :
                        FieldFails(e, WithRaw(options, EnvKey(e, options), raw)) =>
                            snap(schema, WithRaw(options, EnvKey(e, options), raw)).called = ret.called
            ELSE /\ Len(EntriesFor(e)) = 1
                 /\ Contains(EntriesFor(e)[1], Quoted(Raw(e, options).s))

\* the options with the source cut down to the keys in ks
OnlyKeys(opts, ks) ==
    [opts EXCEPT !.source = Obj([k \in (DOMAIN opts.source.fields) \cap ks |-> opts.source.fields[k]])]

\* C9: each field is read from the key prefix + name and from no other
\* key; the result map is keyed by the bare name; an error entry starts
\* with the prefixed key.
C9_Prefix ==
    Done("snap") =>
        /\ ret = snap(schema, OnlyKeys(options, { EnvKey(e, options) : e \in Fields }))
        /\ Reported = ErrorList(schema, options)
        /\ ret.kind = "return" => ret.value.fields = ValuesOf(Kept(schema, options), options)

\* a prefixed call whose source also has a value under the bare name of the
\* field; the map holds, under the bare name, the value of the prefixed key
C9_Witness ==
    /\ Done("snap") /\ options.prefix = Str(P_API)
    /\ \E e \in Fields :
        /\ e.type = Text(K_string)
        /\ Lookup(options.source, e.key) = Str(R_8080)
        /\ Raw(e, options) = Str(R_abc)
        /\ ret.value.fields = (e.key :> Str(R_abc))

---------------------------------------------------------------------------
LibraryOps == {"snap", "validate", "extend", "pick", "omit"}
Returned_(o) == o.by \in LibraryOps

---------------------------------------------------------------------------
Own(o) == DOMAIN o.fields
Listed(keys) == { keys[n] : n \in 1..Len(keys) }
SameOn(ks, o, a) == \A k \in ks : o.fields[k] = a.fields[k]

\* C11: for the objects the caller holds and every key list, extend(a, b)
\* has exactly the keys of a and of b, with b's value on a key of both;
\* pick(a, keys) has exactly the listed keys that a has, omit(a, keys)
\* exactly the keys of a that are not listed, each with a's value; the two
\* share no key, and extend of the two has the fields of a.
C11_Composition ==
    \A i, j \in 1..Len(heap), keys \in KeyLists :
        /\ Own(extend(heap[i], heap[j])) = Own(heap[i]) \cup Own(heap[j])
        /\ SameOn(Own(heap[j]), extend(heap[i], heap[j]), heap[j])
        /\ SameOn(Own(heap[i]) \ Own(heap[j]), extend(heap[i], heap[j]), heap[i])
        /\ Own(pick(heap[i], keys)) = Listed(keys) \cap Own(heap[i])
        /\ SameOn(Listed(keys) \cap Own(heap[i]), pick(heap[i], keys), heap[i])
        /\ Own(omit(heap[i], keys)) = Own(heap[i]) \ Listed(keys)
        /\ SameOn(Own(heap[i]) \ Listed(keys), omit(heap[i], keys), heap[i])
        /\ Own(pick(heap[i], keys)) \cap Own(omit(heap[i], keys)) = {}
        /\ extend(pick(heap[i], keys), omit(heap[i], keys)).fields = heap[i].fields

---------------------------------------------------------------------------
Present(e) ==
    /\ Raw(e, options) /= Undefined
    /\ ~(EmptyAsUndefined(options) /\ Raw(e, options) = Str(<<>>))
Member(e) == \E i \in 1..Len(e.type.allowed) : Str(e.type.allowed[i]) = Raw(e, options)
AllowedList(e) == Join(e.type.allowed, <<", ">>)
InResult(e) == ret.kind = "return" /\ e.key \in DOMAIN ret.value.fields

\* C12: an enum field passes, with its value unchanged, exactly when the
\* value is present and equal to a member of the allowed list; a present
\* value that is no member, and an absent value, fail with one entry that
\* lists the allowed values, and the field is not in the result.
C12_Enum ==
    Done("snap") =>
        \A e \in Fields : IsEnum(e) =>
            IF Present(e) /\ Member(e)
            THEN /\ EntriesFor(e) = <<>>
                 /\ InResult(e) /\ ret.value.fields[e.key] = Raw(e, options)
            ELSE /\ Len(EntriesFor(e)) = 1
                 /\ Contains(EntriesFor(e)[1], AllowedList(e))
                 /\ ~InResult(e)

\* an enum field whose key holds the empty string, taken for absent, failed
\* with the entry that lists the allowed values
C12_Witness ==
    /\ Done("snap") /\ EmptyAsUndefined(options)
    /\ \E e \in Fields :
        /\ IsEnum(e) /\ Raw(e, options) = Str(<<>>)
        /\ Len(EntriesFor(e)) = 1 /\ Contains(EntriesFor(e)[1], AllowedList(e))

---------------------------------------------------------------------------
\* C13: for a custom validator, an absent value never reaches the function
\* of the caller: a required field gives "required but not set", an
\* optional one the value undefined and no error, and the function is
\* called zero times; on a present value it is called exactly once.
C13_AbsentNeverCalls ==
    Done("snap") =>
        \A i \in 1..Len(schema) : isValidator(schema[i].type) =>
            IF Present(schema[i])
            THEN ret.calls[i] = 1
            ELSE /\ ret.calls[i] = 0
                 /\ schema[i].type.required =>
                        /\ EntriesFor(schema[i]) = << NotSet(schema[i]) >>
                        /\ ~InResult(schema[i])
                 /\ ~schema[i].type.required =>
                        /\ EntriesFor(schema[i]) = <<>>
                        /\ InResult(schema[i])
                        /\ ret.value.fields[schema[i].key] = Undefined

---------------------------------------------------------------------------
\* the call of the state, made with the base kind k in place of the field's
AsKind(e, k) == snap(<< [key |-> e.key, type |-> Text(k)] >>, options)
Accepted(e, r) ==
    r.kind = "return" /\ e.key \in DOMAIN r.value.fields /\ r.value.fields[e.key].t = "number"
ValueIn(e, r) == r.value.fields[e.key].n
Integral(n) == n.k = "fin" /\ n.den = 1
InPortRange(n) == n.k = "fin" /\ n.num >= n.den /\ n.num <= 65535 * n.den
Numeric(e) == IsText(e) /\ BaseKind(e) \in {K_number, K_integer, K_port}

\* C14: on a present raw value, integer accepts exactly when number accepts
\* with an integral result, and port exactly when integer accepts with a
\* value from 1 to 65535 (0, 65536, 70000, -5 and 3.14 are rejected by
\* port); the kinds that accept the value yield the same number.
C14_Nested ==
    Done("snap") =>
        \A e \in Fields : (Numeric(e) /\ Present(e)) =>
            /\ BaseKind(e) = K_integer =>
                    (Accepted(e, ret) <=>
                        (Accepted(e, AsKind(e, K_number)) /\ Integral(ValueIn(e, AsKind(e, K_number)))))
            /\ BaseKind(e) = K_port =>
                    /\ Accepted(e, ret) <=>
                            (Accepted(e, AsKind(e, K_integer)) /\ InPortRange(ValueIn(e, AsKind(e, K_integer))))
                    /\ Raw(e, options).s \in {R_0, R_65536, R_70000, R_minus5, R_decimal}
                            => ~Accepted(e, ret)
            /\ Accepted(e, ret) =>
                    \A k \in {K_number, K_integer, K_port} :
                        Accepted(e, AsKind(e, k)) => ValueIn(e, AsKind(e, k)) = ValueIn(e, ret)

\* a port field met 65536, which integer accepts, and rejected it
C14_Witness ==
    /\ Done("snap")
    /\ \E e \in Fields :
        /\ Numeric(e) /\ BaseKind(e) = K_port /\ Raw(e, options) = Str(R_65536)
        /\ ~Accepted(e, ret) /\ Len(EntriesFor(e)) = 1
        /\ Accepted(e, AsKind(e, K_integer))

---------------------------------------------------------------------------
\* a full numeric literal: an optional "-", then digits with at most one
\* point among them
Digits(s) == \A i \in 1..Len(s) : s[i] \in {"0","1","2","3","4","5","6","7","8","9"}
PlainUnsigned(s) ==
    /\ s /= <<>> /\ s /= <<".">>
    /\ \E p \in 0..Len(s) : Digits(SubSeq(s, 1, p)) /\ Digits(SubSeq(s, p + 2, Len(s)))
                              /\ (p < Len(s) => s[p + 1] \in {".","0","1","2","3","4","5","6","7","8","9"})
PlainLiteral(s) == PlainUnsigned(IF s /= <<>> /\ s[1] = "-" THEN Tail(s) ELSE s)
Pieces(raw) == Items(raw)
Rejected(e, text) ==
    /\ ~InResult(e)
    /\ Len(EntriesFor(e)) = 1
    /\ Contains(EntriesFor(e)[1], <<text>>)

\* C15: a present raw value of a number field is accepted only when it is
\* a full numeric literal of a finite number, and any other is rejected
\* with the error of the kind and no value; a number[] field is accepted
\* only when each of its pieces is such a literal, and otherwise rejected
\* as a whole.
C15_NumberLiteral ==
    Done("snap") =>
        \A e \in Fields : (IsText(e) /\ Present(e)) =>
            /\ BaseKind(e) = K_number =>
                    IF PlainLiteral(Raw(e, options).s)
                    THEN Accepted(e, ret) /\ ValueIn(e, ret).k = "fin"
                    ELSE Rejected(e, "must be a number, got ")
            /\ BaseKind(e) = K_numberArray =>
                    IF \A i \in 1..Len(Pieces(Raw(e, options).s)) :
                            PlainLiteral(Pieces(Raw(e, options).s)[i])
                    THEN /\ InResult(e) /\ ret.value.fields[e.key].t = "array"
                         /\ Len(ret.value.fields[e.key].items) = Len(Pieces(Raw(e, options).s))
                    ELSE Rejected(e, "must be comma-separated numbers, got ")

---------------------------------------------------------------------------
FunctionThrows(e) ==
    /\ isValidator(e.type) /\ Present(e)
    /\ Call(e.type.fn, Raw(e, options).s).threw

\* C16: a field whose custom function throws on a present value, whatever
\* the message, has an entry in the error list and none in the result
\* map; snap without a policy raises, and validate returns success = FALSE.
C16_ValidatorFailureReported ==
    pc = "done" =>
        \A e \in Fields : FunctionThrows(e) =>
            /\ op = "validate" => ~ret.value.success /\ Len(EntriesFor(e)) = 1
            /\ (op = "snap" /\ Throws) => ret.kind = "throw"
            /\ (op = "snap" /\ CallbackGiven) => Len(EntriesFor(e)) = 1
            /\ (op = "snap" /\ ret.kind = "return") => e.key \notin DOMAIN ret.value.fields

====
